---- MODULE Spec2Model ----
(***************************************************************************)
(* ResumeAnalyzer (resume_analyzer.py) and the Streamlit handler that      *)
(* calls it (app.py).  A text is a sequence of characters; a character is  *)
(* a one-character string, except the two non-ASCII characters below.      *)
(***************************************************************************)
EXTENDS Integers, Sequences, FiniteSets, TLC

VARIABLES nltk_stopwords, punkt, pdf_file, pc, text, ret, results

vars == <<nltk_stopwords, punkt, pdf_file, pc, text, ret, results>>

(***************************************************************************)
(* Bounds of the model.                                                    *)
(***************************************************************************)
\* longest text drawn character by character from CharAlphabet
MaxLen == 3
\* most words in a text drawn word by word from Vocabulary
MaxWords == 3
\* largest top_n passed to get_word_frequency
MaxTopN == 3

(***************************************************************************)
(* Characters.                                                             *)
(***************************************************************************)
Range(s) == {s[i] : i \in DOMAIN s}

\* the function f on 1..n, as the sequence of its values
AsSeq(f, n) == SubSeq(f, 1, n)

LowerSeq == <<"a", "b", "c", "d", "e", "f", "g", "h", "i", "j", "k", "l", "m", "n", "o", "p", "q", "r", "s", "t", "u", "v", "w", "x", "y", "z">>
UpperSeq == <<"A", "B", "C", "D", "E", "F", "G", "H", "I", "J", "K", "L", "M", "N", "O", "P", "Q", "R", "S", "T", "U", "V", "W", "X", "Y", "Z">>
DigitSeq == <<"0", "1", "2", "3", "4", "5", "6", "7", "8", "9">>

Lower == Range(LowerSeq)
Upper == Range(UpperSeq)
Digit == Range(DigitSeq)

\* U+00C9 and U+00E9 (E acute, upper and lower case): letters outside ASCII
NonAsciiUpper == "U+00C9"
NonAsciiLower == "U+00E9"
\* U+00A0, the no-break space: white space outside ASCII
Nbsp == "U+00A0"

\* \s of a str pattern
Whitespace == {" ", "\t", "\n", Nbsp}
IsSpace(c) == c \in Whitespace

\* \w of a str pattern
IsWordChar(c) == c \in Lower \cup Upper \cup Digit \cup {"_", NonAsciiUpper, NonAsciiLower}

\* str.isalpha, one character
IsAlphaChar(c) == c \in Lower \cup Upper \cup {NonAsciiUpper, NonAsciiLower}

\* str.lower, one character
ToLower(c) ==
    IF c \in Upper THEN LowerSeq[CHOOSE i \in DOMAIN UpperSeq : UpperSeq[i] = c]
    ELSE IF c = NonAsciiUpper THEN NonAsciiLower
    ELSE c

lower(s) == AsSeq([i \in DOMAIN s |-> ToLower(s[i])], Len(s))

\* str.strip and its halves
RECURSIVE lstrip(_)
lstrip(s) ==
    IF s # <<>> /\ IsSpace(Head(s)) THEN lstrip(Tail(s)) ELSE s

RECURSIVE rstrip(_)
rstrip(s) ==
    IF s # <<>> /\ IsSpace(s[Len(s)]) THEN rstrip(SubSeq(s, 1, Len(s) - 1)) ELSE s

strip(s) == rstrip(lstrip(s))

\* ' '.join(words)
RECURSIVE join(_)
join(ws) ==
    IF ws = <<>> THEN <<>>
    ELSE IF Len(ws) = 1 THEN ws[1]
    ELSE ws[1] \o <<" ">> \o join(Tail(ws))

\* the concatenation of a sequence of texts
RECURSIVE Concat(_)
Concat(ss) == IF ss = <<>> THEN <<>> ELSE Head(ss) \o Concat(Tail(ss))

(***************************************************************************)
(* clean_text                                                              *)
(***************************************************************************)
\* the characters  [a-zA-Z0-9\s+#.]  that the first re.sub keeps
KeptChars == Lower \cup Upper \cup Digit \cup Whitespace \cup {"+", "#", "."}

\* re.sub(r'[^a-zA-Z0-9\s+#.]', ' ', text)
SubSpecial(s) ==
    AsSeq([i \in DOMAIN s |-> IF s[i] \in KeptChars THEN s[i] ELSE " "], Len(s))

\* re.sub(r'\s+', ' ', text)
RECURSIVE SubSpaces(_)
SubSpaces(s) ==
    IF s = <<>> THEN <<>>
    ELSE IF IsSpace(Head(s)) THEN <<" ">> \o SubSpaces(lstrip(Tail(s)))
    ELSE <<Head(s)>> \o SubSpaces(Tail(s))

\* clean_text without its last step, the strip
clean_text_unstripped(t) == SubSpaces(SubSpecial(lower(t)))

clean_text(t) == strip(SubSpaces(SubSpecial(lower(t))))

(***************************************************************************)
(* Tokenizers: nltk's word_tokenize, and str.split when punkt is missing.  *)
(***************************************************************************)
\* the length of the run of non-space characters s starts with
RECURSIVE RunLen(_)
RunLen(s) ==
    IF s = <<>> \/ IsSpace(Head(s)) THEN 0 ELSE 1 + RunLen(Tail(s))

\* str.split()
RECURSIVE split(_)
split(s) ==
    LET t == lstrip(s)
        n == RunLen(t)
    IN  IF t = <<>> THEN <<>>
        ELSE <<SubSeq(t, 1, n)>> \o split(SubSeq(t, n + 1, Len(t)))

\* The Treebank rules that apply to cleaned text: '#' is a token of its own,
\* and a period that ends a chunk (after a character that is no period) is
\* split off.
RECURSIVE SplitHash(_, _)
SplitHash(w, acc) ==
    IF w = <<>> THEN (IF acc = <<>> THEN <<>> ELSE <<acc>>)
    ELSE IF Head(w) = "#"
         THEN (IF acc = <<>> THEN <<>> ELSE <<acc>>) \o << <<"#">> >> \o SplitHash(Tail(w), <<>>)
         ELSE SplitHash(Tail(w), Append(acc, Head(w)))

SplitFinalPeriod(w) ==
    IF Len(w) >= 2 /\ w[Len(w)] = "." /\ w[Len(w) - 1] # "."
    THEN <<SubSeq(w, 1, Len(w) - 1), <<".">> >>
    ELSE <<w>>

RECURSIVE TreebankChunks(_)
TreebankChunks(ws) ==
    IF ws = <<>> THEN <<>>
    ELSE LET parts == SplitHash(Head(ws), <<>>)
             n == Len(parts)
         IN  (IF n = 0 THEN <<>>
              ELSE SubSeq(parts, 1, n - 1) \o SplitFinalPeriod(parts[n]))
             \o TreebankChunks(Tail(ws))

word_tokenize(s) == TreebankChunks(split(s))

\* try: word_tokenize(cleaned) except LookupError: cleaned.split()
tokenize(cleaned, has_punkt) ==
    IF has_punkt THEN word_tokenize(cleaned) ELSE split(cleaned)

(***************************************************************************)
(* ResumeAnalyzer.__init__: the stopwords and the skill taxonomy.          *)
(***************************************************************************)
\* the built-in list used when the nltk corpus is missing
BasicStopwords == {
    <<"i">>, <<"m", "e">>, <<"m", "y">>, <<"m", "y", "s", "e", "l", "f">>, <<"w", "e">>,
    <<"o", "u", "r">>, <<"o", "u", "r", "s">>, <<"o", "u", "r", "s", "e", "l", "v", "e", "s">>,
    <<"y", "o", "u">>, <<"y", "o", "u", "r">>, <<"y", "o", "u", "r", "s">>,
    <<"y", "o", "u", "r", "s", "e", "l", "f">>,
    <<"y", "o", "u", "r", "s", "e", "l", "v", "e", "s">>, <<"h", "e">>, <<"h", "i", "m">>,
    <<"h", "i", "s">>, <<"h", "i", "m", "s", "e", "l", "f">>, <<"s", "h", "e">>,
    <<"h", "e", "r">>, <<"h", "e", "r", "s">>, <<"h", "e", "r", "s", "e", "l", "f">>,
    <<"i", "t">>, <<"i", "t", "s">>, <<"i", "t", "s", "e", "l", "f">>, <<"t", "h", "e", "y">>,
    <<"t", "h", "e", "m">>, <<"t", "h", "e", "i", "r">>, <<"t", "h", "e", "i", "r", "s">>,
    <<"t", "h", "e", "m", "s", "e", "l", "v", "e", "s">>, <<"w", "h", "a", "t">>,
    <<"w", "h", "i", "c", "h">>, <<"w", "h", "o">>, <<"w", "h", "o", "m">>,
    <<"t", "h", "i", "s">>, <<"t", "h", "a", "t">>, <<"t", "h", "e", "s", "e">>,
    <<"t", "h", "o", "s", "e">>, <<"a", "m">>, <<"i", "s">>, <<"a", "r", "e">>,
    <<"w", "a", "s">>, <<"w", "e", "r", "e">>, <<"b", "e">>, <<"b", "e", "e", "n">>,
    <<"b", "e", "i", "n", "g">>, <<"h", "a", "v", "e">>, <<"h", "a", "s">>, <<"h", "a", "d">>,
    <<"h", "a", "v", "i", "n", "g">>, <<"d", "o">>, <<"d", "o", "e", "s">>, <<"d", "i", "d">>,
    <<"d", "o", "i", "n", "g">>, <<"a">>, <<"a", "n">>, <<"t", "h", "e">>, <<"a", "n", "d">>,
    <<"b", "u", "t">>, <<"i", "f">>, <<"o", "r">>, <<"b", "e", "c", "a", "u", "s", "e">>,
    <<"a", "s">>, <<"u", "n", "t", "i", "l">>, <<"w", "h", "i", "l", "e">>, <<"o", "f">>,
    <<"a", "t">>, <<"b", "y">>, <<"f", "o", "r">>, <<"w", "i", "t", "h">>,
    <<"a", "b", "o", "u", "t">>, <<"a", "g", "a", "i", "n", "s", "t">>,
    <<"b", "e", "t", "w", "e", "e", "n">>, <<"i", "n", "t", "o">>,
    <<"t", "h", "r", "o", "u", "g", "h">>, <<"d", "u", "r", "i", "n", "g">>,
    <<"b", "e", "f", "o", "r", "e">>, <<"a", "f", "t", "e", "r">>, <<"a", "b", "o", "v", "e">>,
    <<"b", "e", "l", "o", "w">>, <<"t", "o">>, <<"f", "r", "o", "m">>, <<"u", "p">>,
    <<"d", "o", "w", "n">>, <<"i", "n">>, <<"o", "u", "t">>, <<"o", "n">>, <<"o", "f", "f">>,
    <<"o", "v", "e", "r">>, <<"u", "n", "d", "e", "r">>, <<"a", "g", "a", "i", "n">>,
    <<"f", "u", "r", "t", "h", "e", "r">>, <<"t", "h", "e", "n">>, <<"o", "n", "c", "e">> }

\* stopwords.words('english'); its entries with an apostrophe are left out,
\* since no token of a cleaned text holds one
NltkStopwords == BasicStopwords \cup {
    <<"h", "e", "r", "e">>, <<"t", "h", "e", "r", "e">>, <<"w", "h", "e", "n">>,
    <<"w", "h", "e", "r", "e">>, <<"w", "h", "y">>, <<"h", "o", "w">>, <<"a", "l", "l">>,
    <<"a", "n", "y">>, <<"b", "o", "t", "h">>, <<"e", "a", "c", "h">>, <<"f", "e", "w">>,
    <<"m", "o", "r", "e">>, <<"m", "o", "s", "t">>, <<"o", "t", "h", "e", "r">>,
    <<"s", "o", "m", "e">>, <<"s", "u", "c", "h">>, <<"n", "o">>, <<"n", "o", "r">>,
    <<"n", "o", "t">>, <<"o", "n", "l", "y">>, <<"o", "w", "n">>, <<"s", "a", "m", "e">>,
    <<"s", "o">>, <<"t", "h", "a", "n">>, <<"t", "o", "o">>, <<"v", "e", "r", "y">>, <<"s">>,
    <<"t">>, <<"c", "a", "n">>, <<"w", "i", "l", "l">>, <<"j", "u", "s", "t">>,
    <<"d", "o", "n">>, <<"s", "h", "o", "u", "l", "d">>, <<"n", "o", "w">>, <<"d">>,
    <<"l", "l">>, <<"m">>, <<"o">>, <<"r", "e">>, <<"v", "e">>, <<"y">>, <<"a", "i", "n">>,
    <<"a", "r", "e", "n">>, <<"c", "o", "u", "l", "d", "n">>, <<"d", "i", "d", "n">>,
    <<"d", "o", "e", "s", "n">>, <<"h", "a", "d", "n">>, <<"h", "a", "s", "n">>,
    <<"h", "a", "v", "e", "n">>, <<"i", "s", "n">>, <<"m", "a">>,
    <<"m", "i", "g", "h", "t", "n">>, <<"m", "u", "s", "t", "n">>, <<"n", "e", "e", "d", "n">>,
    <<"s", "h", "a", "n">>, <<"s", "h", "o", "u", "l", "d", "n">>, <<"w", "a", "s", "n">>,
    <<"w", "e", "r", "e", "n">>, <<"w", "o", "n">>, <<"w", "o", "u", "l", "d", "n">> }

stop_words(has_corpus) == IF has_corpus THEN NltkStopwords ELSE BasicStopwords

Categories ==
    <<"programming", "web", "data_science", "cloud", "database", "soft_skills">>

skill_keywords ==
    [programming |->
        << <<"p", "y", "t", "h", "o", "n">>, <<"j", "a", "v", "a">>, <<"j", "a", "v", "a", "s", "c", "r", "i", "p", "t">>, <<"c", "+", "+">>, <<"c", "#">>, <<"r", "u", "b", "y">>, <<"p", "h", "p">>,
           <<"s", "w", "i", "f", "t">>, <<"k", "o", "t", "l", "i", "n">>, <<"g", "o">>, <<"r", "u", "s", "t">>, <<"t", "y", "p", "e", "s", "c", "r", "i", "p", "t">>, <<"s", "q", "l">>, <<"r">> >>,
     web |->
        << <<"h", "t", "m", "l">>, <<"c", "s", "s">>, <<"r", "e", "a", "c", "t">>, <<"a", "n", "g", "u", "l", "a", "r">>, <<"v", "u", "e">>, <<"n", "o", "d", "e", "j", "s">>, <<"d", "j", "a", "n", "g", "o">>,
           <<"f", "l", "a", "s", "k">>, <<"f", "a", "s", "t", "a", "p", "i">>, <<"e", "x", "p", "r", "e", "s", "s">>, <<"n", "e", "x", "t", ".", "j", "s">>, <<"b", "o", "o", "t", "s", "t", "r", "a", "p">>, <<"t", "a", "i", "l", "w", "i", "n", "d">> >>,
     data_science |->
        << <<"m", "a", "c", "h", "i", "n", "e", " ", "l", "e", "a", "r", "n", "i", "n", "g">>, <<"d", "e", "e", "p", " ", "l", "e", "a", "r", "n", "i", "n", "g">>, <<"n", "l", "p">>, <<"t", "e", "n", "s", "o", "r", "f", "l", "o", "w">>,
           <<"p", "y", "t", "o", "r", "c", "h">>, <<"p", "a", "n", "d", "a", "s">>, <<"n", "u", "m", "p", "y">>, <<"s", "c", "i", "k", "i", "t", "-", "l", "e", "a", "r", "n">>, <<"d", "a", "t", "a", " ", "a", "n", "a", "l", "y", "s", "i", "s">>,
           <<"s", "t", "a", "t", "i", "s", "t", "i", "c", "s">>, <<"m", "a", "t", "p", "l", "o", "t", "l", "i", "b">>, <<"s", "e", "a", "b", "o", "r", "n">>, <<"t", "a", "b", "l", "e", "a", "u">>, <<"p", "o", "w", "e", "r", " ", "b", "i">> >>,
     cloud |->
        << <<"a", "w", "s">>, <<"a", "z", "u", "r", "e">>, <<"g", "c", "p">>, <<"d", "o", "c", "k", "e", "r">>, <<"k", "u", "b", "e", "r", "n", "e", "t", "e", "s">>, <<"j", "e", "n", "k", "i", "n", "s">>,
           <<"t", "e", "r", "r", "a", "f", "o", "r", "m">>, <<"a", "n", "s", "i", "b", "l", "e">>, <<"c", "i", "c", "d">>, <<"d", "e", "v", "o", "p", "s">> >>,
     database |->
        << <<"m", "o", "n", "g", "o", "d", "b">>, <<"p", "o", "s", "t", "g", "r", "e", "s", "q", "l">>, <<"m", "y", "s", "q", "l">>, <<"r", "e", "d", "i", "s">>, <<"e", "l", "a", "s", "t", "i", "c", "s", "e", "a", "r", "c", "h">>,
           <<"o", "r", "a", "c", "l", "e">>, <<"c", "a", "s", "s", "a", "n", "d", "r", "a">>, <<"d", "y", "n", "a", "m", "o", "d", "b">> >>,
     soft_skills |->
        << <<"l", "e", "a", "d", "e", "r", "s", "h", "i", "p">>, <<"c", "o", "m", "m", "u", "n", "i", "c", "a", "t", "i", "o", "n">>, <<"t", "e", "a", "m", "w", "o", "r", "k">>, <<"p", "r", "o", "b", "l", "e", "m", " ", "s", "o", "l", "v", "i", "n", "g">>,
           <<"a", "n", "a", "l", "y", "t", "i", "c", "a", "l">>, <<"c", "r", "e", "a", "t", "i", "v", "e">>, <<"m", "a", "n", "a", "g", "e", "m", "e", "n", "t">>, <<"a", "g", "i", "l", "e">>, <<"s", "c", "r", "u", "m">> >>]

\* the sentinel of extract_email and extract_phone
NotFound == <<"N", "o", "t", " ", "f", "o", "u", "n", "d">>

(***************************************************************************)
(* Regular-expression matching, as re does it: leftmost start, then the    *)
(* first alternative the backtracking search finds (greedy first).         *)
(***************************************************************************)
\* \b between s[p-1] and s[p]
WordBoundary(s, p) ==
    (p > 1 /\ p - 1 <= Len(s) /\ IsWordChar(s[p - 1]))
        # (p >= 1 /\ p <= Len(s) /\ IsWordChar(s[p]))

\* the length of the longest run of characters of class C that starts at s[p]
RECURSIVE ClassRun(_, _, _)
ClassRun(s, p, C) ==
    IF p >= 1 /\ p <= Len(s) /\ s[p] \in C THEN 1 + ClassRun(s, p + 1, C) ELSE 0

At(s, p) == IF p >= 1 /\ p <= Len(s) THEN s[p] ELSE "EOS"

Max(S) == CHOOSE x \in S : \A y \in S : y <= x
Min(S) == CHOOSE x \in S : \A y \in S : x <= y

\* [A-Za-z0-9._%+-]
EmailLocalChars == Lower \cup Upper \cup Digit \cup {".", "_", "%", "+", "-"}
\* [A-Za-z0-9.-]
EmailDomainChars == Lower \cup Upper \cup Digit \cup {".", "-"}
\* [A-Z|a-z]: the bar is a member of the class
EmailTldChars == Upper \cup {"|"} \cup Lower

\* the ends of the matches of  [A-Z|a-z]{2,}\b  at s[q], longest first
EmailTldEnds(s, q) ==
    {q + t - 1 : t \in {t \in 2..ClassRun(s, q, EmailTldChars) : WordBoundary(s, q + t)}}

\* the lengths d of a domain at s[p] that a period and a top-level part follow
EmailDomainLens(s, p) ==
    {d \in 1..ClassRun(s, p, EmailDomainChars) :
        At(s, p + d) = "." /\ EmailTldEnds(s, p + d + 1) # {}}

\* the end of the match of email_pattern that starts at s[i]; 0 when none does
EmailMatchEnd(s, i) ==
    LET l == ClassRun(s, i, EmailLocalChars)
        a == i + l
    IN  IF WordBoundary(s, i) /\ l >= 1 /\ At(s, a) = "@" /\ EmailDomainLens(s, a + 1) # {}
        THEN Max(EmailTldEnds(s, a + 1 + Max(EmailDomainLens(s, a + 1)) + 1))
        ELSE 0

\* re.findall(email_pattern, text): the pattern has no group, so the items
\* are the whole matches; only the first is used
EmailStarts(s) == {i \in 1..Len(s) : EmailMatchEnd(s, i) > 0}

extract_email(t) ==
    IF EmailStarts(t) = {} THEN NotFound
    ELSE LET i == Min(EmailStarts(t)) IN SubSeq(t, i, EmailMatchEnd(t, i))

\* [-.\s]
PhoneSepChars == {"-", "."} \cup Whitespace

Digits(s, p, n) == \A k \in 0..(n - 1) : At(s, p + k) \in Digit

\* the positions right after the matches of
\*   \(?\d{3}\)?[-.\s]?\d{3}[-.\s]?\d{4}   at s[j]
PhoneRestEnds(s, j) ==
    {j + o1 + 3 + o2 + o3 + 3 + o4 + 4 :
        <<o1, o2, o3, o4>> \in
            {o \in {0, 1} \X {0, 1} \X {0, 1} \X {0, 1} :
                /\ o[1] = 1 => At(s, j) = "("
                /\ Digits(s, j + o[1], 3)
                /\ o[2] = 1 => At(s, j + o[1] + 3) = ")"
                /\ o[3] = 1 => At(s, j + o[1] + 3 + o[2]) \in PhoneSepChars
                /\ Digits(s, j + o[1] + 3 + o[2] + o[3], 3)
                /\ o[4] = 1 => At(s, j + o[1] + 3 + o[2] + o[3] + 3) \in PhoneSepChars
                /\ Digits(s, j + o[1] + 3 + o[2] + o[3] + 3 + o[4], 4)}}

\* the ways group 1,  (\+?\d{1,3}[-.\s]?) , can match at s[i], in the order
\* the search tries them: <<digits, separator>>
PhoneGroupOrder == << <<3, 1>>, <<3, 0>>, <<2, 1>>, <<2, 0>>, <<1, 1>>, <<1, 0>> >>

PhoneGroupLen(s, i, g) ==
    (IF At(s, i) = "+" THEN 1 ELSE 0) + g[1] + g[2]

PhoneGroupOk(s, i, g) ==
    LET p == IF At(s, i) = "+" THEN 1 ELSE 0
    IN  /\ Digits(s, i + p, g[1])
        /\ g[2] = 1 => At(s, i + p + g[1]) \in PhoneSepChars
        /\ PhoneRestEnds(s, i + p + g[1] + g[2]) # {}

PhoneGroupTries(s, i) ==
    {k \in DOMAIN PhoneGroupOrder : PhoneGroupOk(s, i, PhoneGroupOrder[k])}

PhoneMatchesAt(s, i) == PhoneGroupTries(s, i) # {} \/ PhoneRestEnds(s, i) # {}

\* what group 1 holds in the match that starts at s[i]: '' when the group
\* took no part in it
PhoneGroup1(s, i) ==
    IF PhoneGroupTries(s, i) # {}
    THEN SubSeq(s, i, i + PhoneGroupLen(s, i, PhoneGroupOrder[Min(PhoneGroupTries(s, i))]) - 1)
    ELSE <<>>

PhoneStarts(s) == {i \in 1..Len(s) : PhoneMatchesAt(s, i)}

\* re.findall(phone_pattern, text): the pattern has one group, so the items
\* are what group 1 matched, not the whole matches; only the first is used
extract_phone(t) ==
    IF PhoneStarts(t) = {} THEN NotFound
    ELSE PhoneGroup1(t, Min(PhoneStarts(t)))

(***************************************************************************)
(* extract_skills                                                          *)
(***************************************************************************)
\* re.search(r'\b' + re.escape(skill) + r'\b', text_lower)
SkillFound(text_lower, skill) ==
    \E i \in 1..Len(text_lower) :
        /\ i + Len(skill) - 1 <= Len(text_lower)
        /\ SubSeq(text_lower, i, i + Len(skill) - 1) = skill
        /\ WordBoundary(text_lower, i)
        /\ WordBoundary(text_lower, i + Len(skill))

\* the skills of one category found in the text, in the taxonomy's order
FoundIn(text_lower, category) ==
    SelectSeq(skill_keywords[category], LAMBDA skill : SkillFound(text_lower, skill))

\* the dict category -> found skills, as the sequence of its items; a
\* category with nothing found has no item
RECURSIVE FoundSkills(_, _)
FoundSkills(text_lower, k) ==
    IF k > Len(Categories) THEN <<>>
    ELSE LET found == FoundIn(text_lower, Categories[k])
         IN  (IF found # <<>> THEN << <<Categories[k], found>> >> ELSE <<>>)
             \o FoundSkills(text_lower, k + 1)

extract_skills(t) == FoundSkills(lower(t), 1)

(***************************************************************************)
(* get_word_frequency                                                      *)
(***************************************************************************)
\* str.isalpha
isalpha(w) == w # <<>> /\ \A i \in DOMAIN w : IsAlphaChar(w[i])

\* the default of top_n
DefaultTopN == 20

\* the keys of Counter(tokens), in the order they were first seen
RECURSIVE CounterKeys(_, _)
CounterKeys(tokens, seen) ==
    IF tokens = <<>> THEN <<>>
    ELSE IF Head(tokens) \in seen THEN CounterKeys(Tail(tokens), seen)
    ELSE <<Head(tokens)>> \o CounterKeys(Tail(tokens), seen \cup {Head(tokens)})

Occurrences(w, tokens) == Cardinality({i \in DOMAIN tokens : tokens[i] = w})

\* Counter(tokens).items()
CounterItems(tokens) ==
    LET keys == CounterKeys(tokens, {})
    IN  AsSeq([k \in DOMAIN keys |-> <<keys[k], Occurrences(keys[k], tokens)>>], Len(keys))

\* Rank with the counts compared the wrong way round
Rank_ascending(items, k) ==
    1 + Cardinality({j \in DOMAIN items :
            \/ items[j][2] < items[k][2]
            \/ items[j][2] = items[k][2] /\ j < k})

\* where item k stands once the items are sorted by count, largest first,
\* items of equal count keeping their order
Rank(items, k) ==
    1 + Cardinality({j \in DOMAIN items :
            \/ items[j][2] > items[k][2]
            \/ items[j][2] = items[k][2] /\ j < k})

\* Counter.most_common(n) is heapq.nlargest(n, items, key=count), which is
\* sorted(items, key=count, reverse=True)[:n]
most_common(items, n) ==
    LET m == IF n < Len(items) THEN n ELSE Len(items)
    IN  AsSeq([r \in 1..m |-> items[CHOOSE k \in DOMAIN items : Rank(items, k) = r]], m)

\* the tokens the frequency count keeps
FrequencyTokens(t, has_corpus, has_punkt) ==
    SelectSeq(tokenize(clean_text(t), has_punkt),
              LAMBDA word : /\ word \notin stop_words(has_corpus)
                            /\ Len(word) > 2
                            /\ isalpha(word))

\* the dict word -> count, as the sequence of its items
get_word_frequency(t, top_n, has_corpus, has_punkt) ==
    most_common(CounterItems(FrequencyTokens(t, has_corpus, has_punkt)), top_n)

(***************************************************************************)
(* generate_wordcloud                                                      *)
(***************************************************************************)
\* the words of wordcloud.STOPWORDS that the analyzer's own filter can let
\* through
WordCloudStopwords == NltkStopwords \cup {
    <<"a", "l", "s", "o">>, <<"c", "a", "n", "n", "o", "t">>, <<"c", "o", "m">>,
    <<"c", "o", "u", "l", "d">>, <<"e", "l", "s", "e">>, <<"e", "v", "e", "r">>,
    <<"g", "e", "t">>, <<"h", "e", "n", "c", "e">>, <<"h", "o", "w", "e", "v", "e", "r">>,
    <<"h", "t", "t", "p">>, <<"l", "i", "k", "e">>,
    <<"o", "t", "h", "e", "r", "w", "i", "s", "e">>, <<"o", "u", "g", "h", "t">>,
    <<"s", "h", "a", "l", "l">>, <<"s", "i", "n", "c", "e">>,
    <<"t", "h", "e", "r", "e", "f", "o", "r", "e">>, <<"w", "o", "u", "l", "d">>,
    <<"w", "w", "w">> }

\* re.findall(r"\w[\w']*", s): the runs of word characters
RECURSIVE WordRuns(_)
WordRuns(s) ==
    IF s = <<>> THEN <<>>
    ELSE IF ~IsWordChar(Head(s)) THEN WordRuns(Tail(s))
    ELSE LET n == ClassRun(s, 1, {c \in Range(s) : IsWordChar(c)})
         IN  <<SubSeq(s, 1, n)>> \o WordRuns(SubSeq(s, n + 1, Len(s)))

isdigit(w) == w # <<>> /\ \A i \in DOMAIN w : w[i] \in Digit

\* the words WordCloud.generate draws: numbers and its stopwords are dropped
CloudWords(s) ==
    {w \in Range(WordRuns(s)) : ~isdigit(w) /\ lower(w) \notin WordCloudStopwords}

\* the text handed to WordCloud.generate
CloudText(t, has_corpus, has_punkt) ==
    join(SelectSeq(tokenize(clean_text(t), has_punkt),
                   LAMBDA word : word \notin stop_words(has_corpus) /\ Len(word) > 2))

\* WordCloud.generate raises ValueError when it is left with no word; the
\* PNG buffer is stood for by the words it draws
generate_wordcloud(t, has_corpus, has_punkt) ==
    LET words == CloudWords(CloudText(t, has_corpus, has_punkt))
    IN  IF words = {} THEN [raised |-> TRUE, words |-> {}]
        ELSE [raised |-> FALSE, words |-> words]

(***************************************************************************)
(* calculate_job_match                                                     *)
(***************************************************************************)
\* the set of the tokens of a text that are no stopword and longer than 2
SignificantTokens(t, has_corpus, has_punkt) ==
    {w \in Range(tokenize(clean_text(t), has_punkt)) :
        w \notin stop_words(has_corpus) /\ Len(w) > 2}

\* MatchPercentage without the factor 100
MatchPercentage_fraction(matching, job_tokens) ==
    [num |-> Cardinality(matching), den |-> Cardinality(job_tokens)]

\* (len(matching) / len(job_tokens)) * 100, kept as the fraction num / den
MatchPercentage(matching, job_tokens) ==
    [num |-> Cardinality(matching) * 100, den |-> Cardinality(job_tokens)]

Zero == [num |-> 0, den |-> 1]

\* calculate_job_match with the resume's tokens not taken out of the job's
calculate_job_match_nodiff(resume_text, job_description, has_corpus, has_punkt) ==
    LET resume_tokens == SignificantTokens(resume_text, has_corpus, has_punkt)
        job_tokens == SignificantTokens(job_description, has_corpus, has_punkt)
    IN  IF job_tokens = {}
        THEN [percentage |-> Zero, matching_keywords |-> {}, missing_keywords |-> {}]
        ELSE [percentage |-> MatchPercentage(resume_tokens \cap job_tokens, job_tokens),
              matching_keywords |-> resume_tokens \cap job_tokens,
              missing_keywords |-> job_tokens]

calculate_job_match(resume_text, job_description, has_corpus, has_punkt) ==
    LET resume_tokens == SignificantTokens(resume_text, has_corpus, has_punkt)
        job_tokens == SignificantTokens(job_description, has_corpus, has_punkt)
    IN  IF job_tokens = {}
        THEN [percentage |-> Zero, matching_keywords |-> {}, missing_keywords |-> {}]
        ELSE [percentage |-> MatchPercentage(resume_tokens \cap job_tokens, job_tokens),
              matching_keywords |-> resume_tokens \cap job_tokens,
              missing_keywords |-> job_tokens \ resume_tokens]

(***************************************************************************)
(* extract_text_from_pdf and analyze_resume                                *)
(***************************************************************************)
ErrorPrefix == <<"E", "r", "r", "o", "r", " ", "e", "x", "t", "r", "a", "c", "t", "i", "n", "g", " ", "t", "e", "x", "t", ":", " ">>

\* extract_text_from_pdf with the exception swallowed: no message
extract_text_from_pdf_silent(f) ==
    IF f.ok THEN Concat(f.pages) ELSE <<>>

\* a document is [ok, pages, err]: fitz.open succeeds and gives the pages,
\* or raises an exception whose str() is err
extract_text_from_pdf(f) ==
    IF f.ok THEN Concat(f.pages) ELSE ErrorPrefix \o f.err

\* a job description is [given, s]: None, or the string s
\* Truthy as the test  job_description is not None
Truthy_not_none(jd) == jd.given

\* if job_description:
Truthy(jd) == jd.given /\ jd.s # <<>>

NoJobMatch == [present |-> FALSE]

JobMatchData(t, jd, has_corpus, has_punkt) ==
    IF Truthy(jd)
    THEN [present |-> TRUE, data |-> calculate_job_match(t, jd.s, has_corpus, has_punkt)]
    ELSE NoJobMatch

\* the one member of a singleton set
Only(S) == CHOOSE x \in S : TRUE

\* the stages analyze_resume runs on the extracted text t
AnalyzeText(t, jd, has_corpus, has_punkt) ==
    LET cloud == generate_wordcloud(t, has_corpus, has_punkt)
    IN  IF cloud.raised
        THEN [raised |-> TRUE]
        ELSE [raised |-> FALSE,
              val |-> [text |-> t,
                       email |-> extract_email(t),
                       phone |-> extract_phone(t),
                       skills |-> extract_skills(t),
                       word_frequency |-> get_word_frequency(t, DefaultTopN, has_corpus, has_punkt),
                       wordcloud |-> cloud.words,
                       job_match |-> JobMatchData(t, jd, has_corpus, has_punkt)]]

\* what a call of analyze_resume ends in: the dict it returns, or the
\* exception generate_wordcloud raised
analyze_resume(f, jd, has_corpus, has_punkt) ==
    Only({AnalyzeText(t, jd, has_corpus, has_punkt) : t \in {extract_text_from_pdf(f)}})

(***************************************************************************)
(* The inputs: documents, job descriptions.                                *)
(***************************************************************************)
\* every sequence over S of length at most n
SeqsUpTo(S, n) == UNION {[1..k -> S] : k \in 0..n}

\* the pages of a document that holds the text t: none for the empty text,
\* else the text cut in two
Paginate(t) ==
    IF t = <<>> THEN <<>>
    ELSE IF Len(t) = 1 THEN <<t>>
    ELSE <<SubSeq(t, 1, Len(t) \div 2), SubSeq(t, Len(t) \div 2 + 1, Len(t))>>

\* str(e) of the exception fitz.open raises
ErrorMessages == {<<"F", "a", "i", "l", "e", "d", " ", "t", "o", " ", "o", "p", "e", "n", " ", "s", "t", "r", "e", "a", "m">>, <<>>}

Readable(pages) == [ok |-> TRUE, pages |-> pages, err |-> <<>>]

\* documents every run may upload: no page, an empty page, a blank page, and
\* the documents that cannot be opened
CommonFiles ==
    {Readable(<<>>), Readable(<< <<>> >>), Readable(<< <<" ", "\n">>, <<"\t">> >>)}
        \cup {[ok |-> FALSE, pages |-> <<>>, err |-> e] : e \in ErrorMessages}

PdfFiles(texts) == {Readable(Paginate(t)) : t \in texts} \cup CommonFiles

\* texts drawn character by character
CharAlphabet == {"a", "B", "7", "-", ".", " ", "\t", Nbsp, NonAsciiUpper}
CharTexts == SeqsUpTo(CharAlphabet, MaxLen)

\* texts drawn word by word
Vocabulary == {
    <<"p", "y", "t", "h", "o", "n">>, <<"D", "o", "c", "k", "e", "r">>, <<"n", "o", "t">>,
    <<"g", "o">>, <<"r", "e", "a", "c", "t", ".">> }
WordTexts == {join(ws) : ws \in SeqsUpTo(Vocabulary, MaxWords)}

\* texts around a phone number
PhoneTexts ==
    {Concat(<<pre, cc, area, s1, <<"1", "2", "3">>, s2, last, post>>) :
        pre \in {<<>>, <<"T", "e", "l", ":", " ">>},
        cc \in {<<>>, <<"+", "1", " ">>, <<"+", "9", "1", "-">>, <<"1">>},
        area \in {<<"5", "5", "5">>, <<"(", "5", "5", "5", ")">>, <<"5", "5">>},
        s1 \in {<<>>, <<"-">>, <<" ">>},
        s2 \in {<<"-">>, <<".">>, <<"-", "-">>},
        last \in {<<"4", "5", "6", "7">>, <<"4", "5", "6">>},
        post \in {<<>>, <<" ", "o", "r", " ", "5", "5", "5", "1", "2", "3", "4", "5", "6", "7">>}}

\* texts around an e-mail address
EmailTexts ==
    {Concat(<<pre, local, at, domain, <<".">>, tld, post>>) :
        pre \in {<<>>, <<"c", "o", "n", "t", "a", "c", "t", " ", "m", "e", " ", "a", "t", " ">>, <<".">>, <<"_">>},
        local \in {<<"a", ".", "b">>, <<"a">>, <<"a", "%">>},
        at \in {<<"@">>, <<>>},
        domain \in {<<"e", "x", "a", "m", "p", "l", "e">>, <<"d", "-", "e", ".", "f">>, <<>>},
        tld \in {<<"c", "o", "m">>, <<"c">>, <<"a", "|", "b">>, <<"o", "r", "g", "1">>},
        post \in {<<>>, <<" ", "o", "r", " ", "c", "@", "d", ".", "o", "r", "g">>, <<"_">>, <<".", "x">>}}

\* texts around a skill
SkillTexts ==
    {Concat(<<pre, term, post>>) :
        pre \in {<<>>, <<"I", " ", "u", "s", "e", " ">>, <<"x">>, <<"_">>, <<".">>},
        term \in {<<"P", "y", "t", "h", "o", "n">>, <<"C", "+", "+">>, <<"c", "#">>, <<"n", "e", "x", "t", ".", "j", "s">>, <<"n", "e", "x", "t", "x", "j", "s">>, <<"s", "c", "i", "k", "i", "t", "-", "l", "e", "a", "r", "n">>,
                  <<"R">>, <<"M", "a", "c", "h", "i", "n", "e", " ", "L", "e", "a", "r", "n", "i", "n", "g">>, <<"m", "a", "c", "h", "i", "n", "e", " ", " ", "l", "e", "a", "r", "n", "i", "n", "g">>, <<"g", "o">>},
        post \in {<<>>, <<" ", "d", "a", "i", "l", "y">>, <<"i", "c">>, <<",">>, <<"x">>, <<"+">>}}
        \cup {<<"E", "x", "p", "e", "r", "i", "e", "n", "c", "e", "d", " ", "i", "n", " ", "P", "y", "t", "h", "o", "n", ",", " ", "D", "o", "c", "k", "e", "r", " ", "a", "n", "d", " ", "R", "e", "a", "c", "t">>}

\* what the text area can hold; None when the mode has no job description
JobDescriptions ==
    {[given |-> FALSE, s |-> <<>>]} \cup
    {[given |-> TRUE, s |-> s] :
        s \in {<<>>, <<"t", "h", "e", " ", "g", "o">>, <<"p", "y", "t", "h", "o", "n", " ", "d", "o", "c", "k", "e", "r">>, <<"P", "y", "t", "h", "o", "n", ",", " ", "K", "u", "b", "e", "r", "n", "e", "t", "e", "s", " ", "&", " ", "r", "e", "a", "c", "t", ".">>}}

(***************************************************************************)
(* The state machine: a document is uploaded; either its text is extracted *)
(* and one of the analyzer's methods is called on it, or the Analyze       *)
(* button runs the whole of analyze_resume.                                *)
(***************************************************************************)
NoCall == [op |-> "none"]
NoResults == [present |-> FALSE]

InitWith(files) ==
    /\ nltk_stopwords \in BOOLEAN
    /\ punkt \in BOOLEAN
    /\ pdf_file \in files
    /\ pc = "uploaded"
    /\ text = <<>>
    /\ ret = NoCall
    /\ results = NoResults

Init == InitWith(PdfFiles(WordTexts))
InitChars == InitWith(PdfFiles(CharTexts))
InitPhone == InitWith(PdfFiles(PhoneTexts))
InitEmail == InitWith(PdfFiles(EmailTexts))
InitSkills == InitWith(PdfFiles(SkillTexts))

ExtractTextFromPdf ==
    /\ pc = "uploaded"
    /\ text' = extract_text_from_pdf(pdf_file)
    /\ pc' = "extracted"
    /\ UNCHANGED <<nltk_stopwords, punkt, pdf_file, ret, results>>

Call(op, arg, val) ==
    /\ pc = "extracted"
    /\ pc' = "called"
    /\ ret' = [op |-> op, arg |-> arg, val |-> val]
    /\ UNCHANGED <<nltk_stopwords, punkt, pdf_file, text, results>>

CleanText == Call("clean_text", <<>>, clean_text(text))

ExtractEmail == Call("extract_email", <<>>, extract_email(text))

ExtractPhone == Call("extract_phone", <<>>, extract_phone(text))

ExtractSkills == Call("extract_skills", <<>>, extract_skills(text))

GetWordFrequency ==
    \E top_n \in 0..MaxTopN :
        Call("get_word_frequency", top_n,
             get_word_frequency(text, top_n, nltk_stopwords, punkt))

GenerateWordcloud ==
    Call("generate_wordcloud", <<>>, generate_wordcloud(text, nltk_stopwords, punkt))

CalculateJobMatch ==
    \E jd \in JobDescriptions :
        /\ jd.given
        /\ Call("calculate_job_match", jd.s,
                calculate_job_match(text, jd.s, nltk_stopwords, punkt))

\* the Analyze button: the exception analyze_resume raises is caught and
\* shown; only a returned dict is stored in the session
AnalyzeButton ==
    /\ pc = "uploaded"
    /\ \E jd \in JobDescriptions :
        \E out \in {analyze_resume(pdf_file, jd, nltk_stopwords, punkt)} :
            /\ pc' = "analyzed"
            /\ ret' = [op |-> "analyze_resume", arg |-> jd, val |-> out]
            /\ results' = IF out.raised THEN results
                          ELSE [present |-> TRUE, value |-> out.val]
            /\ UNCHANGED <<nltk_stopwords, punkt, pdf_file, text>>

Next ==
    \/ ExtractTextFromPdf
    \/ CleanText
    \/ ExtractEmail
    \/ ExtractPhone
    \/ ExtractSkills
    \/ GetWordFrequency
    \/ GenerateWordcloud
    \/ CalculateJobMatch
    \/ AnalyzeButton

Spec == Init /\ [][Next]_vars
SpecChars == InitChars /\ [][Next]_vars
SpecPhone == InitPhone /\ [][Next]_vars
SpecEmail == InitEmail /\ [][Next]_vars
SpecSkills == InitSkills /\ [][Next]_vars

(***************************************************************************)
(* Properties.                                                             *)
(***************************************************************************)
Called(op) == pc = "called" /\ ret.op = op

Analyzed == pc = "analyzed"

Returned == Analyzed /\ ~ret.val.raised

\* the tokens of a text, before any filter
Tokens(t) == tokenize(clean_text(t), punkt)

\* a significant token: no stopword, and longer than 2
Significant(w) == w \notin stop_words(nltk_stopwords) /\ Len(w) > 2

\* what C1 says of a job match m of resume r and job description d
JobMatchSetsOf(m, r, d) ==
    LET R == {w \in Range(Tokens(r)) : Significant(w)}
        J == {w \in Range(Tokens(d)) : Significant(w)}
    IN  /\ m.matching_keywords = R \cap J
        /\ m.missing_keywords = J \ R
        /\ m.matching_keywords \cup m.missing_keywords = J
        /\ m.matching_keywords \cap m.missing_keywords = {}

\* C1: calculate_job_match returns matching = R' \cap J and missing = J \ R',
\* R' and J the significant tokens of the resume and of the job description;
\* so matching and missing are disjoint and together are J.
C1_JobMatchSets ==
    /\ Called("calculate_job_match") => JobMatchSetsOf(ret.val, text, ret.arg)
    /\ (Returned /\ ret.val.val.job_match.present) =>
            JobMatchSetsOf(ret.val.val.job_match.data, ret.val.val.text, ret.arg.s)

\* a job match with a keyword found and a keyword missing
C1_Witness ==
    /\ Called("calculate_job_match")
    /\ ret.val.matching_keywords # {}
    /\ ret.val.missing_keywords # {}

\* what C2 says of a job match m of resume r and job description d
PercentageOf(m, r, d) ==
    LET J == {w \in Range(Tokens(d)) : Significant(w)}
        p == m.percentage
    IN  /\ p.den > 0 /\ 0 <= p.num /\ p.num <= 100 * p.den
        /\ (J # {} /\ J \subseteq Range(Tokens(r))) => p.num = 100 * p.den
        /\ J = {} => m = [percentage |-> Zero, matching_keywords |-> {},
                          missing_keywords |-> {}]
        /\ J \cap Range(Tokens(r)) = {} => p.num = 0

\* C2: the percentage lies in [0, 100]; it is 100 when the job description
\* has significant tokens and all of them are tokens of the resume; it is 0,
\* with both sets empty, when the job description has no significant token,
\* and 0 when no significant token of it is in the resume.
C2_Percentage ==
    /\ Called("calculate_job_match") => PercentageOf(ret.val, text, ret.arg)
    /\ (Returned /\ ret.val.val.job_match.present) =>
            PercentageOf(ret.val.val.job_match.data, ret.val.val.text, ret.arg.s)

\* a match of exactly 100: both significant tokens of the job are found
C2_Witness ==
    /\ Called("calculate_job_match")
    /\ Cardinality(ret.val.matching_keywords) = 2
    /\ ret.val.percentage.num = 100 * ret.val.percentage.den

\* every substring of s that matches phone_pattern as a whole
PhoneMatches(s) ==
    {SubSeq(s, i, e - 1) :
        <<i, e>> \in {x \in (1..Len(s)) \X (1..(Len(s) + 1)) :
            \/ x[2] \in PhoneRestEnds(s, x[1])
            \/ \E k \in PhoneGroupTries(s, x[1]) :
                  x[2] \in PhoneRestEnds(s, x[1] + PhoneGroupLen(s, x[1], PhoneGroupOrder[k]))}}

\* C3: extract_phone returns a substring of the text that matches the phone
\* pattern, never the empty string or a fragment of the number, and returns
\* "Not found" exactly when the text holds no such substring.
C3_PhoneIsTheMatch ==
    Called("extract_phone") =>
        IF PhoneMatches(text) = {} THEN ret.val = NotFound
        ELSE ret.val \in PhoneMatches(text)

Letters == Lower \cup Upper

\* s is local@domain.tld, the tld two or more letters
IsEmailForm(s) ==
    \E a \in 2..Len(s) : \E d \in (a + 2)..(Len(s) - 2) :
        /\ s[a] = "@"
        /\ \A i \in 1..(a - 1) : s[i] \in EmailLocalChars
        /\ \A i \in (a + 1)..(d - 1) : s[i] \in EmailDomainChars
        /\ s[d] = "."
        /\ \A i \in (d + 1)..Len(s) : s[i] \in Letters

HasEmailForm(t) ==
    \E i \in 1..Len(t) : \E j \in i..Len(t) : IsEmailForm(SubSeq(t, i, j))

\* C4: extract_email returns a substring local@domain.tld whose tld is two
\* or more letters, and "Not found" when the text holds no such substring.
C4_EmailHasTheForm ==
    Called("extract_email") =>
        IF HasEmailForm(text) THEN IsEmailForm(ret.val) ELSE ret.val = NotFound

\* the skill is in the dict extract_skills returned
Reported(found, skill) ==
    \E k \in DOMAIN found : skill \in Range(found[k][2])

\* the term stands in s with no word character right before or after it
WholeWordOccurs(s, term) ==
    \E i \in 1..Len(s) :
        /\ i + Len(term) - 1 <= Len(s)
        /\ SubSeq(s, i, i + Len(term) - 1) = term
        /\ ~IsWordChar(At(s, i - 1))
        /\ ~IsWordChar(At(s, i + Len(term)))

AllSkills == UNION {Range(skill_keywords[Categories[k]]) : k \in DOMAIN Categories}

\* C5: extract_skills reports a term of the taxonomy exactly when the term
\* stands in the lowercased text as a whole word or phrase; 'c++' and 'c#'
\* are such terms.
C5_SkillsAreWholeWords ==
    Called("extract_skills") =>
        \A skill \in AllSkills :
            Reported(ret.val, skill) <=> WholeWordOccurs(lower(text), skill)

\* C6: for a document with no text, analyze_resume returns a result with an
\* empty word frequency, "Not found" for email and phone, no skill, and a
\* word-cloud image.
C6_EmptyDocumentAnalyzed ==
    (Analyzed /\ pdf_file.ok /\ Concat(pdf_file.pages) = <<>>) =>
        /\ ~ret.val.raised
        /\ results.present
        /\ results.value.word_frequency = <<>>
        /\ results.value.email = NotFound
        /\ results.value.phone = NotFound
        /\ results.value.skills = <<>>

\* C7: for a document that cannot be opened, analyze_resume returns a result
\* whose text is the error message, and every stage has run on that message.
C7_ExtractionErrorAnalyzed ==
    (Analyzed /\ ~pdf_file.ok) =>
        LET msg == ErrorPrefix \o pdf_file.err
        IN  /\ ~ret.val.raised
            /\ results.present
            /\ results.value = ret.val.val
            /\ results.value.text = msg
            /\ results.value.email = extract_email(msg)
            /\ results.value.phone = extract_phone(msg)
            /\ results.value.skills = extract_skills(msg)
            /\ results.value.word_frequency =
                    get_word_frequency(msg, DefaultTopN, nltk_stopwords, punkt)
            /\ results.value.wordcloud # {}
            /\ results.value.wordcloud = generate_wordcloud(msg, nltk_stopwords, punkt).words
            /\ results.value.job_match.present <=> (ret.arg.given /\ ret.arg.s # <<>>)
            /\ results.value.job_match.present =>
                    results.value.job_match.data =
                        calculate_job_match(msg, ret.arg.s, nltk_stopwords, punkt)

\* an unreadable document analyzed against a job description
C7_Witness ==
    /\ Analyzed
    /\ ~pdf_file.ok
    /\ pdf_file.err # <<>>
    /\ results.present
    /\ results.value.job_match.present
    /\ results.value.word_frequency # <<>>

\* C8: the result carries a job match exactly when a job description was
\* given and is not the empty string; one with no significant token gives a
\* job match of 0 with both sets empty.
C8_JobMatchPresence ==
    Returned =>
        LET jm == ret.val.val.job_match
        IN  /\ jm.present <=> (ret.arg.given /\ ret.arg.s # <<>>)
            /\ (jm.present /\ {w \in Range(Tokens(ret.arg.s)) : Significant(w)} = {}) =>
                    jm.data = [percentage |-> Zero, matching_keywords |-> {},
                               missing_keywords |-> {}]

\* a result for the empty job description, and so without a job match
C8_Witness ==
    /\ Returned
    /\ ret.arg.given
    /\ ret.arg.s = <<>>
    /\ ~ret.val.val.job_match.present

\* the place of the first occurrence of w among the tokens
FirstAt(w, toks) == Min({i \in DOMAIN toks : toks[i] = w})

Qualifies(w) == Significant(w) /\ \A i \in DOMAIN w : w[i] \in Letters

\* what C9 says of the items out returned for the text t and top_n = n
WordFrequencyOf(out, t, n) ==
    LET toks == Tokens(t)
        returned == {out[i][1] : i \in DOMAIN out}
    IN  /\ Len(out) <= n
        /\ \A i \in DOMAIN out :
              /\ out[i][1] \in Range(toks)
              /\ Qualifies(out[i][1])
              /\ out[i][2] = Occurrences(out[i][1], toks)
        /\ \A i, j \in DOMAIN out :
              i < j =>
                /\ out[i][2] >= out[j][2]
                /\ out[i][1] # out[j][1]
                /\ out[i][2] = out[j][2] => FirstAt(out[i][1], toks) < FirstAt(out[j][1], toks)
        /\ \A w \in {v \in Range(toks) : Qualifies(v)} \ returned :
              \A i \in DOMAIN out : Occurrences(w, toks) <= out[i][2]

\* C9: get_word_frequency returns at most top_n items, by count descending,
\* ties by first occurrence; each word is a token that is no stopword, longer
\* than 2 and alphabetic, with its number of occurrences; no word left out
\* has a higher count than a returned one.
C9_WordFrequency ==
    /\ Called("get_word_frequency") => WordFrequencyOf(ret.val, text, ret.arg)
    /\ Returned =>
            WordFrequencyOf(ret.val.val.word_frequency, ret.val.val.text, DefaultTopN)

\* top_n = 1 cuts the list, and the word kept is not the first one counted
C9_Witness ==
    /\ Called("get_word_frequency")
    /\ ret.arg = 1
    /\ Len(ret.val) = 1
    /\ ret.val[1][2] = 2
    /\ \E w \in Range(Tokens(text)) :
          Qualifies(w) /\ FirstAt(w, Tokens(text)) < FirstAt(ret.val[1][1], Tokens(text))

\* the characters of a cleaned text: [a-z0-9+#. ]
NormalChars == Lower \cup Digit \cup {"+", "#", ".", " "}

NormalForm(s) ==
    /\ \A i \in DOMAIN s : s[i] \in NormalChars
    /\ \A i \in 1..(Len(s) - 1) : ~(s[i] = " " /\ s[i + 1] = " ")
    /\ s # <<>> => (s[1] # " " /\ s[Len(s)] # " ")

\* C10: clean_text(s) holds only characters of [a-z0-9+#. ], no two spaces
\* in a row and no space at either end; cleaning it again changes nothing.
C10_CleanTextNormalForm ==
    Called("clean_text") =>
        /\ NormalForm(ret.val)
        /\ clean_text(ret.val) = ret.val

\* a text of white space, a capital and a character that is dropped
C10_Witness ==
    /\ Called("clean_text")
    /\ Len(text) = 3
    /\ IsSpace(text[1])
    /\ text[2] \in Upper
    /\ text[3] \notin KeptChars
    /\ ret.val = <<ToLower(text[2])>>

====
